---- MODULE Spec2Model ----
(***************************************************************************)
(* Water-Level-Sensor telemetry pipeline.                                  *)
(*                                                                         *)
(*   device  : ReadanalogdataNEW.ino  (RS485 frame decoder, HTTP POST)     *)
(*   server  : routes/authRoutes.js, middleware/authMiddleware.js,         *)
(*             lib/db.js, app.js      (ingestion, query, retention purge)  *)
(*                                                                         *)
(* Time is counted in minutes.                                             *)
(***************************************************************************)
EXTENDS Integers, Sequences, FiniteSets, TLC

VARIABLES
    \* ---- device (ReadanalogdataNEW.ino) ----
    buffer,        \* uint8_t buffer[10]
    bufferIndex,   \* uint8_t bufferIndex
    wifi,          \* WiFi.status() == WL_CONNECTED
    emitted,       \* calls of sendSensorData made while handling the last byte
    posts,         \* http.POST payloads attempted while handling the last byte
    hist,          \* the last (up to 5) bytes read from rs485Serial
    phase,         \* number of bytes read from rs485Serial, modulo 5
    prevBad,       \* the window before the one in hist had a wrong start byte
    txPos,         \* position, in its frame, of the next byte the sensor node sends
    slips,         \* bytes lost on, or added to, the RS485 line so far
    gap            \* passes of loop() that found no byte while the window was partly filled

lineVars == <<txPos, slips, gap>>

deviceVars == <<buffer, bufferIndex, wifi, emitted, posts, hist, phase, prevBad, lineVars>>

VARIABLES
    \* ---- server (app.js, routes/authRoutes.js, lib/db.js) ----
    clock,         \* wall clock of the server and of MySQL, in minutes
    dbUp,          \* MySQL accepts connections and executes queries
    users,         \* ids of the rows of table users
    sensor_data,   \* rows of table sensor_data
    nextId,        \* AUTO_INCREMENT counter of sensor_data.id
    reqs,          \* HTTP requests being handled, per handler context
    resp,          \* the HTTP response sent by the step just taken, if any
    purge,         \* the run of deleteOldSensorData started by the daily cron job
    alive          \* the node process runs (no exception has escaped a callback)

serverVars == <<clock, dbUp, users, sensor_data, nextId, reqs, resp, purge, alive>>

VARIABLES
    \* ---- accounts and scheduled jobs (routes/authRoutes.js, app.js, lib/db.js) ----
    pending,       \* rows of table users with is_verified = 0: [id, created_at]
    nextUserId,    \* AUTO_INCREMENT counter of users.id
    ujob,          \* the run of deleteUnverifiedUsers started by the every-minute cron job
    escaped,       \* an exception has left a cron callback (rejected promise)
    purgeOld,      \* a run of deleteOldSensorData still going on when the next one started
    leaked         \* connections of finished requests never ended (counted up to MaxLeaked)

accountVars == <<pending, nextUserId, ujob, escaped, purgeOld, leaked>>

VARIABLES
    \* ---- dashboard (Dashboard.jsx) ----
    browserNow,       \* Date.now() of the browser, in minutes
    sensorData,       \* state sensorData: the rows of the last response
    nodeNames,        \* state nodeNames
    selectedNode,     \* state selectedNode
    timeRange,        \* state timeRange (minutes)
    latestValue,      \* state latestValue
    filteredData,     \* filteredData of the last render
    dailyAverageData, \* calculateDailyAverage(sensorData) of the last render
    dailyMinMaxData   \* calculateDailyMinMax(sensorData) of the last render

dashVars == <<browserNow, sensorData, nodeNames, selectedNode, timeRange, latestValue,
              filteredData, dailyAverageData, dailyMinMaxData>>

VARIABLES
    \* ---- polling of the dashboard (Dashboard.jsx, useEffect) ----
    timers,        \* setInterval timers of fetchSensorData not cleared
    inflight,      \* calls of fetchSensorData awaiting axios.get: [n, node of the closure]
    issued,        \* calls of fetchSensorData made so far
    shown,         \* number of the call whose response is in sensorData (0: none)
    newest         \* number of the latest call that has got its response (0: none)

pollVars == <<timers, inflight, issued, shown, newest>>

vars == <<deviceVars, serverVars, accountVars, dashVars, pollVars>>

(***************************************************************************)
(* Device                                                                  *)
(***************************************************************************)

\* Byte values the RS485 line delivers in the model: the start byte 0x3A,
\* the node ids 'A'..'D', and 0x00, 0xFF (value bytes, unknown node ids, wrong
\* start bytes).
StreamBytes == {58, 65, 66, 67, 68, 0, 255}

BufferSize == 10
FrameLen == 5
StartByte == 58

USER_ID == "38"
ESP32_SERIAL_NUMBER == "1"
SENSOR_TYPE == "WaterLevel"

RECURSIVE BitOr(_, _)
\* C's bitwise | on non-negative integers.
BitOr(a, b) ==
    IF a = 0 THEN b
    ELSE IF b = 0 THEN a
    ELSE (IF a % 2 = 1 \/ b % 2 = 1 THEN 1 ELSE 0) + 2 * BitOr(a \div 2, b \div 2)

\* (uint16_t)x << n, the result stored in a uint16_t.
Shl16(x, n) == (x * (2 ^ n)) % 65536

getNodeNameNoLab(nodeChar) ==
    CASE nodeChar = 65 -> "Qwave"
      [] nodeChar = 66 -> "Factory"
      [] nodeChar = 67 -> "Warehouse"
      [] OTHER -> "Unknown"
getNodeName(nodeChar) ==
    CASE nodeChar = 65 -> "Qwave"
      [] nodeChar = 66 -> "Factory"
      [] nodeChar = 67 -> "Warehouse"
      [] nodeChar = 68 -> "Lab"
      [] OTHER -> "Unknown"

\* uint16_t value = ((uint16_t)buffer[3] << 8) | buffer[2];
FrameValueBigEndian(buf) == BitOr(Shl16(buf[2], 8), buf[3]) % 65536
FrameValue(buf) == BitOr(Shl16(buf[3], 8), buf[2]) % 65536

\* The arguments loop() passes to sendSensorData for the frame in buf[0..4].
Reading(buf) ==
    [userId      |-> USER_ID,
     esp32Serial |-> ESP32_SERIAL_NUMBER,
     nodeName    |-> getNodeName(buf[1]),
     sensorType  |-> SENSOR_TYPE,
     value       |-> FrameValue(buf)]

\* sendSensorData: the payloads it POSTs (none while WiFi is disconnected).
sendSensorData(r, connected) == IF connected THEN <<r>> ELSE <<>>

StartOkAnywhere(buf) == \E i \in 0 .. FrameLen - 1 : buf[i] = StartByte
\* if (buffer[0] == 0x3A)
StartOk(buf) == buf[0] = StartByte

IndexAfterWindowKeptOnError(buf, idx) == IF buf[0] = StartByte THEN 0 ELSE idx
IndexAfterWindowKept(buf, idx) == idx
\* bufferIndex = 0;  (line 291, after either branch)
IndexAfterWindow(buf, idx) == 0

\* One iteration of the while loop of loop(): the byte b has been read.
\* Returns the new [buffer, bufferIndex, emitted, posts].
LoopStep(buf, idx, b, connected) ==
    LET stored == idx < BufferSize
        buf1   == IF stored THEN [buf EXCEPT ![idx] = b] ELSE buf
        idx1   == IF stored THEN (idx + 1) % 256 ELSE idx
    IN  IF idx1 = FrameLen
        THEN IF StartOk(buf1)
             THEN [buffer |-> buf1, bufferIndex |-> IndexAfterWindow(buf1, idx1),
                   emitted |-> <<Reading(buf1)>>,
                   posts |-> sendSensorData(Reading(buf1), connected)]
             ELSE [buffer |-> buf1, bufferIndex |-> IndexAfterWindow(buf1, idx1),
                   emitted |-> <<>>, posts |-> <<>>]
        ELSE [buffer |-> buf1, bufferIndex |-> idx1,
              emitted |-> <<>>, posts |-> <<>>]

InitDevice ==
    /\ buffer = [i \in 0 .. BufferSize - 1 |-> 0]
    /\ bufferIndex = 0
    /\ wifi = TRUE
    /\ emitted = <<>>
    /\ posts = <<>>
    /\ hist = <<>>
    /\ phase = 0
    /\ prevBad = FALSE
    /\ txPos = 0
    /\ slips = 0
    /\ gap = 0

Last5(s) == IF Len(s) <= FrameLen THEN s ELSE SubSeq(s, Len(s) - FrameLen + 1, Len(s))

\* loop(): rs485Serial.available() and one byte is read and handled; the
\* device's side of it.
loopDevice(b) ==
    LET r == LoopStep(buffer, bufferIndex, b, wifi)
    IN  /\ buffer' = r.buffer
        /\ bufferIndex' = r.bufferIndex
        /\ emitted' = r.emitted
        /\ posts' = r.posts
        /\ hist' = Last5(Append(hist, b))
        /\ phase' = (phase + 1) % FrameLen
        /\ prevBad' = IF phase = 0 /\ Len(hist) = FrameLen
                      THEN hist[1] # StartByte
                      ELSE prevBad
        /\ UNCHANGED wifi

\* loop() of a device whose POSTs are not followed to the server.
loop(b) ==
    /\ loopDevice(b)
    /\ UNCHANGED lineVars
    /\ UNCHANGED <<serverVars, accountVars, dashVars, pollVars>>

\* The WiFi link drops or comes back (WiFi.begin reconnects in the background).
WifiChange ==
    /\ wifi' = ~wifi
    /\ UNCHANGED <<buffer, bufferIndex, emitted, posts, hist, phase, prevBad, lineVars>>
    /\ UNCHANGED <<serverVars, accountVars, dashVars, pollVars>>

NextDevice ==
    \/ \E b \in StreamBytes : loop(b)
    \/ WifiChange

\* The line in the delivery runs carries well-formed frames only: the bytes
\* that may come at each position of a frame (3A, node 'A' or 'B', two value
\* bytes, end marker).
FrameBytes == <<{58}, {65, 66}, {0, 255}, {4, 0}, {0}>>

NextRetry ==
    \/ \E b \in FrameBytes[phase + 1] : loop(b)
    \/ WifiChange

\* Bound of the model: bytes lost or added on the line in one run.
MaxSlips == 2
\* Bound of the model: passes of loop() without a byte counted per window.
MaxGap == 2

\* The frames the sensor node sends in the line runs, by position: start
\* byte, node id 'A', value bytes (0x3A is the low byte of the values 58 and
\* 0x3A3A), and an end byte, which the frame format leaves open.
LineFrame == <<{58}, {65}, {58, 0}, {58, 4}, {58, 0}>>
\* Bytes that noise on the line adds.
NoiseBytes == {58, 255}

\* The first byte of a new window ends the count of passes without a byte.
GapAfterByte == IF bufferIndex = 0 THEN 0 ELSE gap

\* The sensor node sends the next byte of its frame and loop() reads it.
Transmit(b) ==
    /\ b \in LineFrame[txPos + 1]
    /\ loopDevice(b)
    /\ txPos' = (txPos + 1) % FrameLen
    /\ gap' = GapAfterByte
    /\ UNCHANGED slips
    /\ UNCHANGED <<serverVars, accountVars, dashVars, pollVars>>

\* The next byte of the frame is lost on the line: rs485Serial never has it.
Drop ==
    /\ slips < MaxSlips
    /\ slips' = slips + 1
    /\ txPos' = (txPos + 1) % FrameLen
    /\ UNCHANGED <<buffer, bufferIndex, wifi, emitted, posts, hist, phase, prevBad, gap>>
    /\ UNCHANGED <<serverVars, accountVars, dashVars, pollVars>>

\* Noise on the line: rs485Serial delivers a byte the sensor node did not send.
Insert(b) ==
    /\ slips < MaxSlips
    /\ slips' = slips + 1
    /\ loopDevice(b)
    /\ gap' = GapAfterByte
    /\ UNCHANGED txPos
    /\ UNCHANGED <<serverVars, accountVars, dashVars, pollVars>>

IdleStepTimeout(buf, idx) == [buffer |-> buf, bufferIndex |-> 0]
\* A pass of loop() with rs485Serial.available() == 0: the while body is not
\* entered, and loop() has no other statement.
IdleStep(buf, idx) == [buffer |-> buf, bufferIndex |-> idx]

\* loop() runs while the line is silent in the middle of a frame.
Idle ==
    /\ bufferIndex > 0
    /\ gap < MaxGap
    /\ gap' = gap + 1
    /\ buffer' = IdleStep(buffer, bufferIndex).buffer
    /\ bufferIndex' = IdleStep(buffer, bufferIndex).bufferIndex
    /\ UNCHANGED <<wifi, emitted, posts, hist, phase, prevBad, txPos, slips>>
    /\ UNCHANGED <<serverVars, accountVars, dashVars, pollVars>>

NextLine ==
    \/ \E b \in UNION {LineFrame[i] : i \in 1 .. FrameLen} : Transmit(b)
    \/ Drop
    \/ \E b \in NoiseBytes : Insert(b)
    \/ Idle

(***************************************************************************)
(* Server                                                                  *)
(***************************************************************************)

\* A JSON field or a column: absent / NULL, or a value.
Null == <<>>
Some(v) == <<v>>

\* Bounds of the model.
NReq == 2          \* handler contexts (requests in flight at once)
MaxId == 3         \* rows ever inserted into sensor_data
MaxClock == 2160   \* last minute of the run

\* INTERVAL 1 DAY, and the period of the cron expression "0 0 * * *".
DayMinutes == 1440
\* The last minute before the first run of the daily job.
BeforeMidnight == DayMinutes - 1
\* The clock is observed every 12 hours.
TickSteps == {720}

Slots == 1 .. NReq

\* MySQL's conversion of a decimal string to the INT column user_id.
ToInt(s) ==
    CASE s = "1" -> 1
      [] s = "2" -> 2
      [] s = "3" -> 3
      [] s = "38" -> 38

\* Accounts of the model: rows 1 and 2 of table users exist, no row 3.
InitUsers == {1, 2}

Body(u, e, n, t, v, ts) ==
    [userId |-> u, esp32Serial |-> e, nodeName |-> n, sensorType |-> t,
     value |-> v, timestamp |-> ts]

FullBody(u) ==
    Body(Some(u), Some("1"), Some("Qwave"), Some("WaterLevel"), Some(1024), Null)

NoHeader == <<>>

IdleReq ==
    [kind |-> "idle", pc |-> "idle", body |-> Null, header |-> NoHeader,
     query |-> Null, user |-> Null]

NoResp ==
    [kind |-> "none", status |-> 0, body |-> Null, header |-> NoHeader,
     query |-> Null, user |-> Null, rows |-> <<>>, inserted |-> {},
     message |-> ""]

IdlePurge == [pc |-> "idle", ok |-> FALSE, affected |-> 0, at |-> 0]

InitServer ==
    /\ clock = 0
    /\ dbUp = TRUE
    /\ users = InitUsers
    /\ sensor_data = {}
    /\ nextId = 1
    /\ reqs = [r \in Slots |-> IdleReq]
    /\ resp = NoResp
    /\ purge = IdlePurge
    /\ alive = TRUE

\* Bound of the model: connections left open by finished handlers are counted
\* up to this number (the count stays there: "this many or more").
MaxLeaked == 2

\* The route handlers take db = await connectToDatabase() and return, or
\* catch, without db.end(): the connection of the request stays open.
LeakedAfterHandler(n) == IF n < MaxLeaked THEN n + 1 ELSE n

\* The handler context a new request gets: the first free one.
FreeSlot(r) ==
    /\ reqs[r].kind = "idle"
    /\ \A q \in Slots : q < r => reqs[q].kind # "idle"

InFlightPosts == Cardinality({r \in Slots : reqs[r].kind = "post"})

\* router.post("/api/sensor-data", async (req, res) => ...): no middleware; the
\* handler destructures req.body and awaits connectToDatabase().
PostAccept(r, b, h) ==
    /\ alive
    /\ FreeSlot(r)
    /\ nextId + InFlightPosts <= MaxId
    /\ reqs' = [reqs EXCEPT ![r] =
                  [IdleReq EXCEPT !.kind = "post", !.pc = "connect",
                                  !.body = Some(b), !.header = h]]
    /\ resp' = NoResp
    /\ UNCHANGED <<clock, dbUp, users, sensor_data, nextId, purge, alive>>

\* A POST of a client other than the modelled device.
PostArrive(r, b, h) ==
    /\ PostAccept(r, b, h)
    /\ UNCHANGED <<deviceVars, accountVars, dashVars, pollVars>>

Respond(r, status, message, rows, inserted) ==
    [kind |-> reqs[r].kind, status |-> status, body |-> reqs[r].body,
     header |-> reqs[r].header, query |-> reqs[r].query, user |-> reqs[r].user,
     rows |-> rows, inserted |-> inserted, message |-> message]

ErrorMessage(kind) ==
    IF kind = "post" THEN "Error saving sensor data" ELSE "Error fetching sensor data"

HandlerCatchRetry(r) ==
    /\ reqs' = [reqs EXCEPT ![r].pc = "connect"]
    /\ resp' = NoResp
    /\ UNCHANGED alive
\* catch (error) { console.error(...); res.status(500).json({ message }) }
HandlerCatch(r) ==
    /\ reqs' = [reqs EXCEPT ![r] = IdleReq]
    /\ resp' = Respond(r, 500, ErrorMessage(reqs[r].kind), <<>>, {})
    /\ UNCHANGED alive

\* const db = await connectToDatabase(): mysql.createConnection succeeds, or it
\* throws and the handler's catch answers 500.
Connect(r) ==
    /\ alive
    /\ reqs[r].pc = "connect"
    /\ IF dbUp
       THEN /\ reqs' = [reqs EXCEPT ![r].pc = "query"]
            /\ resp' = NoResp
            /\ UNCHANGED alive
       ELSE HandlerCatch(r)
    /\ UNCHANGED <<clock, dbUp, users, sensor_data, nextId, purge>>
    /\ UNCHANGED <<deviceVars, accountVars, dashVars, pollVars>>

\* The row the INSERT of the ingestion handler builds: undefined binds as NULL,
\* the timestamp is new Date().
InsertRowFromBody(b, now) ==
    [id           |-> nextId,
     user_id      |-> IF b.userId = Null THEN Null ELSE Some(ToInt(b.userId[1])),
     esp32_serial |-> b.esp32Serial,
     node_name    |-> b.nodeName,
     sensor_type  |-> b.sensorType,
     sensor_value |-> b.value,
     timestamp    |-> IF b.timestamp = Null THEN now ELSE b.timestamp[1]]
InsertRow(b, now) ==
    [id           |-> nextId,
     user_id      |-> IF b.userId = Null THEN Null ELSE Some(ToInt(b.userId[1])),
     esp32_serial |-> b.esp32Serial,
     node_name    |-> b.nodeName,
     sensor_type  |-> b.sensorType,
     sensor_value |-> b.value,
     timestamp    |-> now]

\* Table sensor_data: user_id INT NOT NULL, FOREIGN KEY (user_id) REFERENCES users(id).
Accepts(row) ==
    /\ row.user_id # Null
    /\ row.user_id[1] \in users

TableAfterInsertDedup(table, row) ==
    IF \E x \in table : [x EXCEPT !.id = row.id] = row THEN table ELSE table \cup {row}
\* id INT AUTO_INCREMENT PRIMARY KEY: every accepted INSERT adds a row.
TableAfterInsert(table, row) == table \cup {row}

\* await db.query("INSERT INTO sensor_data ...") and the response.
PostQuery(r) ==
    /\ alive
    /\ reqs[r].kind = "post"
    /\ reqs[r].pc = "query"
    /\ LET row == InsertRow(reqs[r].body[1], clock)
       IN  IF dbUp /\ Accepts(row)
           THEN /\ sensor_data' = TableAfterInsert(sensor_data, row)
                /\ nextId' = nextId + 1
                /\ resp' = Respond(r, 201, "Sensor data saved successfully", <<>>, {row})
                /\ reqs' = [reqs EXCEPT ![r] = IdleReq]
                /\ UNCHANGED alive
           ELSE /\ UNCHANGED <<sensor_data, nextId>>
                /\ HandlerCatch(r)
    /\ leaked' = LeakedAfterHandler(leaked)
    /\ UNCHANGED <<clock, dbUp, users, purge>>
    /\ UNCHANGED <<pending, nextUserId, ujob, escaped, purgeOld>>
    /\ UNCHANGED <<deviceVars, dashVars, pollVars>>

\* jwt.verify's view of the tokens of the model: the payload id, whether the
\* signature matches JWT_KEY, and exp (jwt.sign with expiresIn "24h": old1 was
\* issued to account 1 twelve hours before minute 0, tok1 at minute 1440).
Jwt(token) ==
    CASE token = "tok1" -> [id |-> 1, signed |-> TRUE, exp |-> 2880]
      [] token = "old1" -> [id |-> 1, signed |-> TRUE, exp |-> 720]
      [] token = "forged1" -> [id |-> 1, signed |-> FALSE, exp |-> 2880]
      [] token = "tok38" -> [id |-> 38, signed |-> TRUE, exp |-> 2880]
      [] OTHER -> [id |-> 0, signed |-> FALSE, exp |-> 0]

jwtVerifyNoExpiry(token, now) ==
    IF Jwt(token).signed THEN Some(Jwt(token).id) ELSE Null
\* jwt.verify(token, process.env.JWT_KEY): the decoded id, or Null when it throws.
jwtVerify(token, now) ==
    IF Jwt(token).signed /\ now < Jwt(token).exp THEN Some(Jwt(token).id) ELSE Null

\* authenticateToken. The header is the list of its words (split(" ")); the
\* result is the status it answers (0: it calls next()) and req.user.id.
authenticateToken(h, now) ==
    LET token == IF Len(h) >= 2 THEN Some(h[2]) ELSE Null
    IN  IF token = Null
        THEN [status |-> 401, user |-> Null,
              message |-> "Unauthorized: No token provided"]
        ELSE IF jwtVerify(token[1], now) = Null
             THEN [status |-> 403, user |-> Null,
                   message |-> "Forbidden: Invalid token"]
             ELSE [status |-> 0, user |-> jwtVerify(token[1], now), message |-> ""]

\* router.get("/sensor-data", authenticateToken, async (req, res) => ...): the
\* middleware answers 401/403, or the handler starts and awaits connectToDatabase().
GetArrive(r, h, q) ==
    /\ alive
    /\ FreeSlot(r)
    /\ LET a == authenticateToken(h, clock)
       IN  IF a.status # 0
           THEN /\ resp' = [NoResp EXCEPT !.kind = "get", !.status = a.status,
                                          !.header = h, !.query = q,
                                          !.message = a.message]
                /\ UNCHANGED reqs
           ELSE /\ reqs' = [reqs EXCEPT ![r] =
                              [IdleReq EXCEPT !.kind = "get", !.pc = "connect",
                                              !.header = h, !.query = q,
                                              !.user = a.user]]
                /\ resp' = NoResp
    /\ UNCHANGED <<clock, dbUp, users, sensor_data, nextId, purge, alive>>
    /\ UNCHANGED <<deviceVars, accountVars, dashVars, pollVars>>

QueryOwnerFromParams(req) == IF req.query # Null THEN req.query[1] ELSE req.user[1]
\* const userId = req.user.id;
QueryOwner(req) == req.user[1]

\* The orders in which ORDER BY timestamp DESC may return the rows S.
OrderedDesc(S) ==
    {s \in [1 .. Cardinality(S) -> S] :
        /\ \A i, j \in 1 .. Cardinality(S) : i # j => s[i] # s[j]
        /\ \A i, j \in 1 .. Cardinality(S) : i < j => s[i].timestamp >= s[j].timestamp}

\* await db.query("SELECT * FROM sensor_data WHERE user_id = ? ORDER BY
\* timestamp DESC", [userId]) and the response.
GetQuery(r) ==
    /\ alive
    /\ reqs[r].kind = "get"
    /\ reqs[r].pc = "query"
    /\ IF dbUp
       THEN /\ \E rows \in OrderedDesc({x \in sensor_data :
                                          x.user_id = Some(QueryOwner(reqs[r]))}) :
                  resp' = Respond(r, 200, "", rows, {})
            /\ reqs' = [reqs EXCEPT ![r] = IdleReq]
            /\ UNCHANGED alive
       ELSE HandlerCatch(r)
    /\ leaked' = LeakedAfterHandler(leaked)
    /\ UNCHANGED <<clock, dbUp, users, sensor_data, nextId, purge>>
    /\ UNCHANGED <<pending, nextUserId, ujob, escaped, purgeOld>>
    /\ UNCHANGED <<deviceVars, dashVars, pollVars>>

\* MySQL goes down or comes back.
DbChange ==
    /\ alive
    /\ dbUp' = ~dbUp
    /\ resp' = NoResp
    /\ UNCHANGED <<clock, users, sensor_data, nextId, reqs, purge, alive>>
    /\ UNCHANGED <<deviceVars, accountVars, dashVars, pollVars>>

\* cron.schedule(expression, callback) without options: at every matching
\* minute the callback is called, whether or not the promise of its previous
\* call has settled. A run still going on then goes on beside the new one
\* (the model follows two runs at a time).
PurgeOldAfterTick(starts) ==
    IF starts /\ purge.pc # "idle" THEN purge ELSE purgeOld

\* Time passes; at 00:00 the job cron.schedule("0 0 * * *") starts a run of
\* deleteOldSensorData, which awaits connectToDatabase().
Tick(limit) ==
    /\ alive
    /\ \E d \in TickSteps :
          /\ clock + d <= limit
          /\ clock' = clock + d
    /\ purge' = IF clock' % DayMinutes = 0
                THEN [IdlePurge EXCEPT !.pc = "connect"]
                ELSE purge
    /\ purgeOld' = PurgeOldAfterTick(clock' % DayMinutes = 0)
    /\ resp' = NoResp
    /\ UNCHANGED <<dbUp, users, sensor_data, nextId, reqs, alive>>
    /\ UNCHANGED <<pending, nextUserId, ujob, escaped, leaked>>
    /\ UNCHANGED <<deviceVars, dashVars, pollVars>>

\* deleteOldSensorData: db = await connectToDatabase(). When it throws, the
\* catch logs and the finally block finds db undefined.
PurgeConnect ==
    /\ alive
    /\ purge.pc = "connect"
    /\ purge' = IF dbUp THEN [purge EXCEPT !.pc = "query"] ELSE IdlePurge
    /\ resp' = NoResp
    /\ UNCHANGED <<clock, dbUp, users, sensor_data, nextId, reqs, alive>>
    /\ UNCHANGED <<deviceVars, accountVars, dashVars, pollVars>>

OldRowsInclusive(table, now) == {x \in table : x.timestamp <= now - DayMinutes}
OldRowsAll(table, now) == table
OldRowsTwoDays(table, now) == {x \in table : x.timestamp < now - 2 * DayMinutes}
\* WHERE timestamp < NOW() - INTERVAL 1 DAY
OldRows(table, now) == {x \in table : x.timestamp < now - DayMinutes}

\* deleteOldSensorData: await db.query("DELETE FROM sensor_data WHERE ...");
\* the affected count is logged, a failure is caught and logged.
PurgeDelete ==
    /\ alive
    /\ purge.pc = "query"
    /\ IF dbUp
       THEN /\ sensor_data' = sensor_data \ OldRows(sensor_data, clock)
            /\ purge' = [pc |-> "end", ok |-> TRUE,
                         affected |-> Cardinality(OldRows(sensor_data, clock)),
                         at |-> clock]
       ELSE /\ UNCHANGED sensor_data
            /\ purge' = [pc |-> "end", ok |-> FALSE, affected |-> 0, at |-> clock]
    /\ resp' = NoResp
    /\ UNCHANGED <<clock, dbUp, users, nextId, reqs, alive>>
    /\ UNCHANGED <<deviceVars, accountVars, dashVars, pollVars>>

\* await db.end() in a finally block, outside try/catch. On a connection that
\* is still good it resolves. On one the store has dropped it may reject; the
\* rejection leaves the async function and the cron callback that awaits it,
\* and the process survives or dies, depending on how the scheduler and the
\* runtime treat a rejected callback.
EndConnection ==
    \/ UNCHANGED <<escaped, alive>>
    \/ /\ ~dbUp
       /\ escaped' = TRUE
       /\ alive' \in BOOLEAN

\* deleteOldSensorData: finally { if (db) await db.end(); }
PurgeEnd ==
    /\ alive
    /\ purge.pc = "end"
    /\ purge' = IdlePurge
    /\ resp' = NoResp
    /\ EndConnection
    /\ UNCHANGED <<clock, dbUp, users, sensor_data, nextId, reqs>>
    /\ UNCHANGED <<pending, nextUserId, ujob, purgeOld, leaked>>
    /\ UNCHANGED <<deviceVars, dashVars, pollVars>>

\* The steps of a run of deleteOldSensorData that is still going on after the
\* next run has started: its connect, ...
PurgeOldConnect ==
    /\ alive
    /\ purgeOld.pc = "connect"
    /\ purgeOld' = IF dbUp THEN [purgeOld EXCEPT !.pc = "query"] ELSE IdlePurge
    /\ resp' = NoResp
    /\ UNCHANGED <<clock, dbUp, users, sensor_data, nextId, reqs, purge, alive>>
    /\ UNCHANGED <<pending, nextUserId, ujob, escaped, leaked>>
    /\ UNCHANGED <<deviceVars, dashVars, pollVars>>

\* ... its DELETE, ...
PurgeOldDelete ==
    /\ alive
    /\ purgeOld.pc = "query"
    /\ IF dbUp
       THEN /\ sensor_data' = sensor_data \ OldRows(sensor_data, clock)
            /\ purgeOld' = [pc |-> "end", ok |-> TRUE,
                            affected |-> Cardinality(OldRows(sensor_data, clock)),
                            at |-> clock]
       ELSE /\ UNCHANGED sensor_data
            /\ purgeOld' = [pc |-> "end", ok |-> FALSE, affected |-> 0, at |-> clock]
    /\ resp' = NoResp
    /\ UNCHANGED <<clock, dbUp, users, nextId, reqs, purge, alive>>
    /\ UNCHANGED <<pending, nextUserId, ujob, escaped, leaked>>
    /\ UNCHANGED <<deviceVars, dashVars, pollVars>>

\* ... and its db.end().
PurgeOldEnd ==
    /\ alive
    /\ purgeOld.pc = "end"
    /\ purgeOld' = IdlePurge
    /\ resp' = NoResp
    /\ EndConnection
    /\ UNCHANGED <<clock, dbUp, users, sensor_data, nextId, reqs, purge>>
    /\ UNCHANGED <<pending, nextUserId, ujob, leaked>>
    /\ UNCHANGED <<deviceVars, dashVars, pollVars>>

\* Bound of the model: ids of table users ever given out.
MaxUserId == 3
\* Bound of the model: minute steps of the clock after each 12-hour step.
MaxMinute == 2
\* deleteUnverifiedUsers: Date.now() - 1 * 60 * 1000, in minutes.
UnverifiedMinutes == 1

IdleJob == [pc |-> "idle", ok |-> FALSE, affected |-> 0]

InitAccounts ==
    /\ pending = {}
    /\ nextUserId = 3
    /\ ujob = IdleJob
    /\ escaped = FALSE
    /\ purgeOld = IdlePurge
    /\ leaked = 0

\* router.post("/register"): INSERT INTO users (...); id is AUTO_INCREMENT,
\* is_verified defaults to FALSE and created_at to CURRENT_TIMESTAMP.
Register ==
    /\ alive
    /\ dbUp
    /\ nextUserId <= MaxUserId
    /\ users' = users \cup {nextUserId}
    /\ pending' = pending \cup {[id |-> nextUserId, created_at |-> clock]}
    /\ nextUserId' = nextUserId + 1
    /\ resp' = NoResp
    /\ UNCHANGED <<clock, dbUp, sensor_data, nextId, reqs, purge, alive>>
    /\ leaked' = LeakedAfterHandler(leaked)
    /\ UNCHANGED <<ujob, escaped, purgeOld>>
    /\ UNCHANGED <<deviceVars, dashVars, pollVars>>

\* router.post("/verify") with the right code: UPDATE users SET is_verified = 1.
Verify(u) ==
    /\ alive
    /\ dbUp
    /\ \E p \in pending : p.id = u
    /\ pending' = {p \in pending : p.id # u}
    /\ resp' = NoResp
    /\ UNCHANGED <<clock, dbUp, users, sensor_data, nextId, reqs, purge, alive>>
    /\ leaked' = LeakedAfterHandler(leaked)
    /\ UNCHANGED <<nextUserId, ujob, escaped, purgeOld>>
    /\ UNCHANGED <<deviceVars, dashVars, pollVars>>

\* A minute passes: cron.schedule('*/1 * * * *') starts a run of
\* deleteUnverifiedUsers (the previous one has finished), and at 00:00 the
\* daily job starts a run of deleteOldSensorData.
TickMinute(limit) ==
    /\ alive
    /\ ujob.pc = "idle"
    /\ clock % DayMinutes < limit
    /\ clock' = clock + 1
    /\ ujob' = [IdleJob EXCEPT !.pc = "connect"]
    /\ purge' = IF clock' % DayMinutes = 0
                THEN [IdlePurge EXCEPT !.pc = "connect"]
                ELSE purge
    /\ purgeOld' = PurgeOldAfterTick(clock' % DayMinutes = 0)
    /\ resp' = NoResp
    /\ UNCHANGED <<dbUp, users, sensor_data, nextId, reqs, alive>>
    /\ UNCHANGED <<pending, nextUserId, escaped, leaked>>
    /\ UNCHANGED <<deviceVars, dashVars, pollVars>>

\* deleteUnverifiedUsers: db = await connectToDatabase().
UnverifiedConnect ==
    /\ alive
    /\ ujob.pc = "connect"
    /\ ujob' = IF dbUp THEN [ujob EXCEPT !.pc = "query"] ELSE IdleJob
    /\ resp' = NoResp
    /\ UNCHANGED <<clock, dbUp, users, sensor_data, nextId, reqs, purge, alive>>
    /\ UNCHANGED <<pending, nextUserId, escaped, purgeOld, leaked>>
    /\ UNCHANGED <<deviceVars, dashVars, pollVars>>

StaleUnverifiedInclusive(pend, t) ==
    {p \in pend : p.created_at <= t - UnverifiedMinutes}
\* WHERE is_verified = 0 AND created_at < oneMinuteAgo
StaleUnverified(pend, t) ==
    {p \in pend : p.created_at < t - UnverifiedMinutes}

\* FOREIGN KEY (user_id) REFERENCES users(id) ON DELETE CASCADE: the rows of
\* sensor_data that go with the deleted users.
CascadeRows(table, ids) ==
    {x \in table : x.user_id # Null /\ x.user_id[1] \in ids}

\* deleteUnverifiedUsers: await db.query("DELETE FROM users WHERE ...").
UnverifiedDelete ==
    /\ alive
    /\ ujob.pc = "query"
    /\ IF dbUp
       THEN LET stale == StaleUnverified(pending, clock)
                ids   == {p.id : p \in stale}
            IN  /\ users' = users \ ids
                /\ pending' = pending \ stale
                /\ sensor_data' = sensor_data \ CascadeRows(sensor_data, ids)
                /\ ujob' = [pc |-> "end", ok |-> TRUE, affected |-> Cardinality(ids)]
       ELSE /\ UNCHANGED <<users, pending, sensor_data>>
            /\ ujob' = [pc |-> "end", ok |-> FALSE, affected |-> 0]
    /\ resp' = NoResp
    /\ UNCHANGED <<clock, dbUp, nextId, reqs, purge, alive>>
    /\ UNCHANGED <<nextUserId, escaped, purgeOld, leaked>>
    /\ UNCHANGED <<deviceVars, dashVars, pollVars>>

\* deleteUnverifiedUsers: finally { if (db) await db.end(); }
UnverifiedEnd ==
    /\ alive
    /\ ujob.pc = "end"
    /\ ujob' = IdleJob
    /\ resp' = NoResp
    /\ EndConnection
    /\ UNCHANGED <<clock, dbUp, users, sensor_data, nextId, reqs, purge>>
    /\ UNCHANGED <<pending, nextUserId, purgeOld, leaked>>
    /\ UNCHANGED <<deviceVars, dashVars, pollVars>>

\* Twelve hours pass in which no run of deleteUnverifiedUsers finds a row.
TickQuiet(limit) ==
    /\ pending = {}
    /\ ujob.pc = "idle"
    /\ Tick(limit)

\* Payloads of the ingestion runs: complete ones for the accounts 1 and 2,
\* one for an account that does not exist, one carrying a timestamp of its own.
IngestBodies ==
    {FullBody("1"), FullBody("2"), FullBody("3"),
     [FullBody("1") EXCEPT !.timestamp = Some(5)]}

\* The largest value of 16 bits.
MaxValue == 65535

\* Payloads that lack one of the five fields, a complete one, and one whose
\* value does not fit 16 bits.
ValidateBodies ==
    {FullBody("1"),
     [FullBody("1") EXCEPT !.value = Some(MaxValue + 4465)],
     [FullBody("1") EXCEPT !.userId = Null],
     [FullBody("1") EXCEPT !.esp32Serial = Null],
     [FullBody("1") EXCEPT !.nodeName = Null],
     [FullBody("1") EXCEPT !.sensorType = Null],
     [FullBody("1") EXCEPT !.value = Null]}

NextValidate ==
    \/ \E r \in Slots, b \in ValidateBodies : PostArrive(r, b, NoHeader)
    \/ \E r \in Slots : Connect(r)
    \/ \E r \in Slots : PostQuery(r)
    \/ DbChange
    \/ Tick(BeforeMidnight)

\* Authorization headers are word lists. Those of the model: none, a scheme
\* without a token, a token without a scheme, a valid token of account 1, one
\* that expires at minute 720, and one with a wrong signature.

\* GET requests of the model: a header and a query string (none, or ?userId=2).
GetInputs ==
    {<<NoHeader, Null>>, <<<<"Bearer">>, Null>>, <<<<"tok1">>, Null>>,
     <<<<"Bearer", "tok1">>, Some(2)>>, <<<<"Bearer", "old1">>, Null>>,
     <<<<"Bearer", "forged1">>, Some(2)>>}

NextQuery ==
    \/ \E r \in Slots, b \in {FullBody("1"), FullBody("2")} :
          PostArrive(r, b, NoHeader)
    \/ \E r \in Slots, g \in GetInputs : GetArrive(r, g[1], g[2])
    \/ \E r \in Slots : Connect(r)
    \/ \E r \in Slots : PostQuery(r)
    \/ \E r \in Slots : GetQuery(r)
    \/ DbChange
    \/ Tick(BeforeMidnight)

NextPurge ==
    \/ \E r \in Slots : PostArrive(r, FullBody("1"), NoHeader)
    \/ \E r \in Slots : Connect(r)
    \/ \E r \in Slots : PostQuery(r)
    \/ DbChange
    \/ Tick(MaxClock)
    \/ PurgeConnect
    \/ PurgeDelete
    \/ PurgeEnd

\* Payloads of two devices: different owners, different locations.
ConcurrentBodies ==
    {FullBody("1"), [FullBody("2") EXCEPT !.nodeName = Some("Factory")]}

\* Ingestion requests overlapping each other and the daily purge run.
NextConcurrent ==
    \/ \E r \in Slots, b \in ConcurrentBodies : PostArrive(r, b, NoHeader)
    \/ \E r \in Slots : Connect(r)
    \/ \E r \in Slots : PostQuery(r)
    \/ Tick(MaxClock)
    \/ PurgeConnect
    \/ PurgeDelete
    \/ PurgeEnd

\* Two periods of the daily job.
TwoDays == 2 * DayMinutes

\* The daily job over two midnights with a store slow enough for a run to
\* last a day, beside ingestion.
NextOverlap ==
    \/ \E r \in Slots : PostArrive(r, FullBody("1"), NoHeader)
    \/ \E r \in Slots : Connect(r)
    \/ \E r \in Slots : PostQuery(r)
    \/ DbChange
    \/ Tick(TwoDays)
    \/ PurgeConnect
    \/ PurgeDelete
    \/ PurgeEnd
    \/ PurgeOldConnect
    \/ PurgeOldDelete
    \/ PurgeOldEnd

\* Three periods of the daily job.
ThreeDays == 3 * DayMinutes

\* Time passes while no purge run is in progress: every run finishes, and
\* finishes before the clock is looked at again.
TickPrompt(limit) ==
    /\ purge.pc = "idle"
    /\ Tick(limit)

\* Ingestion and the daily job over three midnights with a store that is
\* always available: every run succeeds.
NextRetention ==
    \/ \E r \in Slots : PostArrive(r, FullBody("1"), NoHeader)
    \/ \E r \in Slots : Connect(r)
    \/ \E r \in Slots : PostQuery(r)
    \/ TickPrompt(ThreeDays)
    \/ PurgeConnect
    \/ PurgeDelete
    \/ PurgeEnd

NextIngest ==
    \/ \E r \in Slots, b \in IngestBodies : PostArrive(r, b, NoHeader)
    \/ \E r \in Slots : Connect(r)
    \/ \E r \in Slots : PostQuery(r)
    \/ DbChange
    \/ Tick(BeforeMidnight)

\* Registration, verification, ingestion for the new account, and both
\* scheduled jobs.  One POST is in flight at a time beside the two jobs;
\* POSTs overlapping each other are the subject of NextIngest.
NextAccounts ==
    \/ Register
    \/ \E u \in 1 .. MaxUserId + 1 : Verify(u)
    \/ PostArrive(1, FullBody("3"), NoHeader)
    \/ Connect(1)
    \/ PostQuery(1)
    \/ DbChange
    \/ TickMinute(MaxMinute)
    \/ TickQuiet(MaxClock)
    \/ UnverifiedConnect
    \/ UnverifiedDelete
    \/ UnverifiedEnd
    \/ PurgeConnect
    \/ PurgeDelete
    \/ PurgeEnd

(***************************************************************************)
(* Dashboard                                                               *)
(***************************************************************************)

\* JavaScript values of the dashboard's arithmetic. A number is num/den; a
\* string is the list of the decimal literals it was concatenated from, each
\* <<v, digits>>: the integer v written with that many decimals (<<10, 2>> is
\* "10.00", <<0, 0>> is "0"), digits = -1 for a word that is no number.
JsNumber(n, d) == [t |-> "number", num |-> n, den |-> d, text |-> <<>>]
NaN == [t |-> "NaN", num |-> 0, den |-> 1, text |-> <<>>]
JsNull == [t |-> "null", num |-> 0, den |-> 1, text |-> <<>>]
JsString(txt) == [t |-> "string", num |-> 0, den |-> 1, text |-> txt]

\* Digits after the point of column sensor_value DECIMAL(10,2).
DecimalScale == 2

DecimalUnscaled(v) == JsString(<<<<v * 100, 0>>>>)
\* A DECIMAL column in a result row of mysql2 (option decimalNumbers is not
\* set by connectToDatabase): its text, "1024.00".
Decimal(v) == JsString(<<<<v, DecimalScale>>>>)

\* Number(x), the conversion the operators / and Math.min/max apply. A string
\* converts when it is one numeric literal: "", "10.00", or "0" followed by an
\* unsigned literal ("010.00"); "010.0020.00" does not.
ToNumber(x) ==
    CASE x.t = "number" -> x
      [] x.t = "NaN" -> NaN
      [] x.t = "null" -> JsNumber(0, 1)
      [] x.t = "string" ->
           IF Len(x.text) = 0 THEN JsNumber(0, 1)
           ELSE IF Len(x.text) = 1 /\ x.text[1][2] >= 0
                THEN JsNumber(x.text[1][1], 1)
           ELSE IF /\ Len(x.text) = 2
                   /\ x.text[1] = <<0, 0>>
                   /\ x.text[2][1] >= 0
                   /\ x.text[2][2] >= 0
                THEN JsNumber(x.text[2][1], 1)
           ELSE NaN

\* String(x) for the values that reach the operator +: integers, null, NaN, strings.
ToText(x) ==
    CASE x.t = "string" -> x.text
      [] x.t = "number" -> <<<<x.num, 0>>>>
      [] OTHER -> <<<<0, -1>>>>

\* a + b: concatenation as soon as one operand is a string.
JsAdd(a, b) ==
    IF a.t = "string" \/ b.t = "string"
    THEN JsString(ToText(a) \o ToText(b))
    ELSE IF a.t = "NaN" \/ b.t = "NaN"
         THEN NaN
         ELSE JsNumber(ToNumber(a).num + ToNumber(b).num, 1)

\* a / n for a count n >= 1.
JsDiv(a, n) ==
    IF ToNumber(a).t = "NaN" THEN NaN
    ELSE JsNumber(ToNumber(a).num, ToNumber(a).den * n)

MathMin(a, b) ==
    IF ToNumber(a).t = "NaN" \/ ToNumber(b).t = "NaN" THEN NaN
    ELSE IF ToNumber(a).num <= ToNumber(b).num THEN ToNumber(a) ELSE ToNumber(b)

MathMax(a, b) ==
    IF ToNumber(a).t = "NaN" \/ ToNumber(b).t = "NaN" THEN NaN
    ELSE IF ToNumber(a).num >= ToNumber(b).num THEN ToNumber(a) ELSE ToNumber(b)

\* res.json(rows): a row of sensor_data as the dashboard receives it.
ToJson(row) ==
    [id |-> row.id, user_id |-> row.user_id, esp32_serial |-> row.esp32_serial,
     node_name |-> row.node_name, sensor_type |-> row.sensor_type,
     sensor_value |-> IF row.sensor_value = Null THEN JsNull
                      ELSE Decimal(row.sensor_value[1]),
     timestamp |-> row.timestamp]

ToJsonRows(rows) == [i \in 1 .. Len(rows) |-> ToJson(rows[i])]

\* A call of fetchSensorData: its number of issue and the selectedNode its
\* closure has captured.
Call(n, node) == [n |-> n, node |-> node]

InitDash ==
    /\ browserNow = 0
    /\ sensorData = <<>>
    /\ nodeNames = <<>>
    /\ selectedNode = Some("")
    /\ timeRange = 10
    /\ latestValue = JsNumber(0, 1)
    /\ filteredData = <<>>
    /\ dailyAverageData = <<>>
    /\ dailyMinMaxData = <<>>
    /\ timers = 1
    /\ inflight = {Call(1, Some(""))}
    /\ issued = 1
    /\ shown = 0
    /\ newest = 0

\* The filter callback of filteredData: node and time window.
InWindowExclusive(data, node, range, t) ==
    /\ data.node_name = node
    /\ data.timestamp > t - range
InWindow(data, node, range, t) ==
    /\ data.node_name = node
    /\ data.timestamp >= t - range

RECURSIVE InsertDesc(_, _)
\* Array.prototype.sort with (a, b) => new Date(b.timestamp) - new Date(a.timestamp),
\* a stable sort: x goes behind the elements that are not older than it.
InsertDesc(sorted, x) ==
    IF sorted = <<>> THEN <<x>>
    ELSE IF sorted[1].timestamp >= x.timestamp
         THEN <<sorted[1]>> \o InsertDesc(Tail(sorted), x)
         ELSE <<x>> \o sorted

RECURSIVE SortDesc(_)
SortDesc(a) ==
    IF a = <<>> THEN <<>>
    ELSE InsertDesc(SortDesc(SubSeq(a, 1, Len(a) - 1)), a[Len(a)])

\* const filteredData = sensorData.filter(...).sort(...), at Date.now() = t.
FilteredData(data, node, range, t) ==
    SortDesc(SelectSeq(data, LAMBDA d : InWindow(d, node, range, t)))

LatestValueKept(fd, old) ==
    IF Len(fd) > 0 THEN fd[1].sensor_value ELSE old
\* The effect on filteredData: setLatestValue(filteredData[0].sensor_value), or 0.
LatestValueOf(fd, old) ==
    IF Len(fd) > 0 THEN fd[1].sensor_value ELSE JsNumber(0, 1)

\* toLocaleDateString("en-US", {timeZone: "Asia/Bangkok"}): the calendar day,
\* as a day number; the clock counts minutes from a midnight of that zone.
DayOf(ts) == ts \div DayMinutes

RECURSIVE Unique(_)
\* The distinct elements of a list, in order of first appearance (the key
\* order of an object, the order of a Set).
Unique(a) ==
    IF a = <<>> THEN <<>>
    ELSE LET u == Unique(SubSeq(a, 1, Len(a) - 1))
         IN  IF \E i \in 1 .. Len(u) : u[i] = a[Len(a)] THEN u ELSE Append(u, a[Len(a)])

ForNodeAny(data, node) == data
\* data.filter((item) => item.node_name === selectedNode)
ForNode(data, node) == SelectSeq(data, LAMBDA d : d.node_name = node)

OfDay(items, day) == SelectSeq(items, LAMBDA d : DayOf(d.timestamp) = day)

DayKeys(items) == Unique([i \in 1 .. Len(items) |-> DayOf(items[i].timestamp)])

RECURSIVE Total(_)
\* groupedData[date].total after the forEach: 0 += item.sensor_value, in turn.
Total(items) ==
    IF items = <<>> THEN JsNumber(0, 1)
    ELSE JsAdd(Total(SubSeq(items, 1, Len(items) - 1)), items[Len(items)].sensor_value)

\* calculateDailyAverage(data) with the selected node.
calculateDailyAverage(data, node) ==
    LET items == ForNode(data, node)
        keys  == DayKeys(items)
    IN  [i \in 1 .. Len(keys) |->
           [date    |-> keys[i],
            average |-> JsDiv(Total(OfDay(items, keys[i])), Len(OfDay(items, keys[i])))]]

RECURSIVE DayMin(_)
\* groupedData[date].min after the forEach: the first value as it is, then Math.min.
DayMin(items) ==
    IF Len(items) = 1 THEN items[1].sensor_value
    ELSE MathMin(DayMin(SubSeq(items, 1, Len(items) - 1)), items[Len(items)].sensor_value)

RECURSIVE DayMaxAsMin(_)
DayMaxAsMin(items) ==
    IF Len(items) = 1 THEN items[1].sensor_value
    ELSE MathMin(DayMaxAsMin(SubSeq(items, 1, Len(items) - 1)), items[Len(items)].sensor_value)

RECURSIVE DayMax(_)
DayMax(items) ==
    IF Len(items) = 1 THEN items[1].sensor_value
    ELSE MathMax(DayMax(SubSeq(items, 1, Len(items) - 1)), items[Len(items)].sensor_value)

\* calculateDailyMinMax(data) with the selected node.
calculateDailyMinMax(data, node) ==
    LET items == ForNode(data, node)
        keys  == DayKeys(items)
    IN  [i \in 1 .. Len(keys) |->
           [date |-> keys[i],
            min  |-> DayMin(OfDay(items, keys[i])),
            max  |-> DayMax(OfDay(items, keys[i]))]]

\* A render of Dashboard with the given state at Date.now() = browserNow, and
\* the effect that follows it.
Render(data, node, range) ==
    /\ filteredData' = FilteredData(data, node, range, browserNow)
    /\ dailyAverageData' = calculateDailyAverage(data, node)
    /\ dailyMinMaxData' = calculateDailyMinMax(data, node)
    /\ latestValue' = LatestValueOf(FilteredData(data, node, range, browserNow), latestValue)

\* !selectedNode
Falsy(node) == node = Null \/ node = Some("")

\* fetchSensorData after a 200 response with the rows data: setSensorData,
\* setNodeNames, setSelectedNode(nodes[0]) when nothing was selected in the
\* render whose effect made the call (captured is the selectedNode of its closure).
FetchDoneOf(data, captured) ==
    LET nodes == Unique([i \in 1 .. Len(data) |-> data[i].node_name])
        node  == IF Falsy(captured) /\ Len(nodes) > 0 THEN nodes[1] ELSE selectedNode
    IN  /\ sensorData' = data
        /\ nodeNames' = nodes
        /\ selectedNode' = node
        /\ Render(data, node, timeRange)
        /\ UNCHANGED <<browserNow, timeRange>>

\* The response to a call made by the effect of the latest render.
FetchDone(data) == FetchDoneOf(data, selectedNode)

\* handleNodeChange: an option of the node select is chosen.
handleNodeChange(i) ==
    /\ i \in 1 .. Len(nodeNames)
    /\ selectedNode' = nodeNames[i]
    /\ Render(sensorData, nodeNames[i], timeRange)
    /\ UNCHANGED <<browserNow, sensorData, nodeNames, timeRange>>
    /\ UNCHANGED <<deviceVars, serverVars, accountVars, pollVars>>

\* onChange of the time range select: setTimeRange(Number(e.target.value)).
setTimeRange(n) ==
    /\ n # timeRange
    /\ timeRange' = n
    /\ Render(sensorData, selectedNode, n)
    /\ UNCHANGED <<browserNow, sensorData, nodeNames, selectedNode>>
    /\ UNCHANGED <<deviceVars, serverVars, accountVars, pollVars>>

\* Time passes in the browser and no poll succeeds in it (a failed fetch is
\* caught and sets no state), so nothing is rendered.
DashTick(d, limit) ==
    /\ browserNow + d <= limit
    /\ browserNow' = browserNow + d
    /\ UNCHANGED <<sensorData, nodeNames, selectedNode, timeRange, latestValue,
                   filteredData, dailyAverageData, dailyMinMaxData>>
    /\ UNCHANGED <<deviceVars, serverVars, accountVars, pollVars>>

\* Bound of the model: the last minute of the browser's clock.
MaxNow == 1443

\* The options of the time range select, in minutes.
TimeRanges == {1, 5, 10, 15, 30}

DashRow(i, node, v, ts) ==
    ToJson([id |-> i, user_id |-> Some(1), esp32_serial |-> Some("1"),
            node_name |-> Some(node), sensor_type |-> Some("WaterLevel"),
            sensor_value |-> Some(v), timestamp |-> ts])

\* Stored readings of the dashboard runs: three days' worth around the
\* midnight at minute 1440, two nodes, equal and different values and timestamps.
DashPool ==
    {DashRow(1, "Qwave", 10, 1420), DashRow(2, "Qwave", 20, 1434),
     DashRow(3, "Qwave", 10, 1438), DashRow(4, "Factory", 20, 1438),
     DashRow(5, "Qwave", 30, 1440)}

\* The responses of GET /sensor-data over subsets of the pool: each row once,
\* ORDER BY timestamp DESC.
DashResponses ==
    UNION {OrderedDesc(S) : S \in SUBSET DashPool}

NextDash ==
    \/ \E data \in DashResponses :
          FetchDone(data) /\ UNCHANGED <<deviceVars, serverVars, accountVars, pollVars>>
    \/ \E i \in 1 .. 2 : handleNodeChange(i)
    \/ \E n \in TimeRanges : setTimeRange(n)
    \/ DashTick(DayMinutes, MaxNow)
    \/ browserNow >= DayMinutes /\ DashTick(1, MaxNow)

\* Bound of the model: calls of fetchSensorData in one run.
MaxFetch == 3

\* setInterval(fetchSensorData, 10000) fires: the call is made whatever calls
\* are still awaiting their response.
PollTick ==
    /\ timers > 0
    /\ issued < MaxFetch
    /\ issued' = issued + 1
    /\ inflight' = inflight \cup {Call(issued + 1, selectedNode)}
    /\ UNCHANGED <<timers, shown, newest>>
    /\ UNCHANGED <<deviceVars, serverVars, accountVars, dashVars>>

\* The effect with dependencies [navigate, selectedNode] runs again when
\* selectedNode has changed: its cleanup clears the interval, fetchSensorData
\* is called at once and a new interval is set. Calls awaiting their response
\* are not cancelled. pendingCalls are the calls still awaiting theirs.
EffectAfter(changed, pendingCalls) ==
    IF changed
    THEN /\ issued < MaxFetch
         /\ timers' = (timers - 1) + 1
         /\ issued' = issued + 1
         /\ inflight' = pendingCalls \cup {Call(issued + 1, selectedNode')}
    ELSE /\ inflight' = pendingCalls
         /\ UNCHANGED <<timers, issued>>

\* The call c of fetchSensorData gets its 200 response with the rows
\* data and sets the state, whichever calls were made after it; a change of
\* selectedNode runs the effect again.
FetchResolve(c, data) ==
    /\ timers > 0
    /\ c \in inflight
    /\ FetchDoneOf(data, c.node)
    /\ shown' = c.n
    /\ newest' = IF c.n > newest THEN c.n ELSE newest
    /\ EffectAfter(selectedNode' # selectedNode, inflight \ {c})
    /\ UNCHANGED <<deviceVars, serverVars, accountVars>>

\* The call c fails (network error, 401, 403, 500): the catch logs the
\* error and sets no state.
FetchFail(c) ==
    /\ timers > 0
    /\ c \in inflight
    /\ inflight' = inflight \ {c}
    /\ UNCHANGED <<timers, issued, shown, newest>>
    /\ UNCHANGED <<deviceVars, serverVars, accountVars, dashVars>>

\* handleNodeChange followed by the effect it triggers.
NodeChangePoll(i) ==
    /\ timers > 0
    /\ i \in 1 .. Len(nodeNames)
    /\ selectedNode' = nodeNames[i]
    /\ Render(sensorData, nodeNames[i], timeRange)
    /\ UNCHANGED <<browserNow, sensorData, nodeNames, timeRange>>
    /\ EffectAfter(selectedNode' # selectedNode, inflight)
    /\ UNCHANGED <<shown, newest>>
    /\ UNCHANGED <<deviceVars, serverVars, accountVars>>

\* The Dashboard is unmounted: the cleanup of the effect clears the interval.
Unmount ==
    /\ timers > 0
    /\ timers' = timers - 1
    /\ UNCHANGED <<inflight, issued, shown, newest>>
    /\ UNCHANGED <<deviceVars, serverVars, accountVars, dashVars>>

\* Responses of the polling runs: the table grows from call to call.
PollResponses ==
    {<<>>,
     <<DashRow(1, "Qwave", 10, 1420)>>,
     <<DashRow(4, "Factory", 20, 1438), DashRow(1, "Qwave", 10, 1420)>>}

NextPoll ==
    \/ PollTick
    \/ \E c \in inflight, data \in PollResponses : FetchResolve(c, data)
    \/ \E c \in inflight : FetchFail(c)
    \/ \E i \in 1 .. 2 : NodeChangePoll(i)
    \/ Unmount

\* The JSON document of sendSensorData as req.body.
BodyOf(r) ==
    Body(Some(r.userId), Some(r.esp32Serial), Some(r.nodeName), Some(r.sensorType),
         Some(r.value), Null)

\* loop() of the device up to its first reading, with the POST of
\* sendSensorData arriving at the server (http.POST returns only after the
\* response, so the device reads no byte while its request is handled).
loopPost(b, r) ==
    /\ emitted = <<>>
    /\ loopDevice(b)
    /\ UNCHANGED lineVars
    /\ IF LoopStep(buffer, bufferIndex, b, wifi).posts # <<>>
       THEN PostAccept(r, BodyOf(LoopStep(buffer, bufferIndex, b, wifi).posts[1]), NoHeader)
       ELSE UNCHANGED serverVars
    /\ UNCHANGED <<accountVars, dashVars, pollVars>>

\* fetchSensorData receives the 200 response of the step just taken.
FetchResponse ==
    /\ resp.kind = "get"
    /\ resp.status = 200
    /\ FetchDone(ToJsonRows(resp.rows))
    /\ UNCHANGED <<deviceVars, serverVars, accountVars, pollVars>>

\* The deployment the firmware is configured for: account USER_ID exists.
InitEndToEnd ==
    /\ InitDevice
    /\ InitDash
    /\ clock = 0
    /\ dbUp = TRUE
    /\ users = {ToInt(USER_ID)}
    /\ sensor_data = {}
    /\ nextId = 1
    /\ reqs = [r \in Slots |-> IdleReq]
    /\ resp = NoResp
    /\ purge = IdlePurge
    /\ alive = TRUE
    /\ pending = {}
    /\ nextUserId = ToInt(USER_ID) + 1
    /\ ujob = IdleJob
    /\ escaped = FALSE
    /\ purgeOld = IdlePurge
    /\ leaked = 0

\* Device, server and dashboard of account USER_ID within one minute.
NextEndToEnd ==
    \/ \E b \in FrameBytes[phase + 1], r \in Slots : loopPost(b, r)
    \/ WifiChange
    \/ \E r \in Slots : GetArrive(r, <<"Bearer", "tok38">>, Null)
    \/ \E r \in Slots : Connect(r)
    \/ \E r \in Slots : PostQuery(r)
    \/ \E r \in Slots : GetQuery(r)
    \/ DbChange
    \/ FetchResponse
    \/ \E n \in {1, 10} : setTimeRange(n)

Init == InitDevice /\ InitServer /\ InitAccounts /\ InitDash

SpecDevice == Init /\ [][NextDevice]_vars

SpecIngest == Init /\ [][NextIngest]_vars

SpecValidate == Init /\ [][NextValidate]_vars

SpecQuery == Init /\ [][NextQuery]_vars

SpecPurge == Init /\ [][NextPurge]_vars

SpecAccounts == Init /\ [][NextAccounts]_vars

SpecDash == Init /\ [][NextDash]_vars

SpecEndToEnd == InitEndToEnd /\ [][NextEndToEnd]_vars

\* The WiFi link keeps changing: it is connected again and again.
SpecRetry ==
    /\ Init
    /\ [][NextRetry]_vars
    /\ WF_vars(WifiChange)

SpecLine == Init /\ [][NextLine]_vars

SpecConcurrent == Init /\ [][NextConcurrent]_vars

SpecOverlap == Init /\ [][NextOverlap]_vars

SpecRetention == Init /\ [][NextRetention]_vars

SpecPoll == Init /\ [][NextPoll]_vars

(***************************************************************************)
(* Frame decoder properties (SpecDevice)                                   *)
(***************************************************************************)

\* A 5-byte window has just been completed: hist holds its bytes.
WindowDone == phase = 0 /\ Len(hist) = FrameLen

RECURSIVE FeedAll(_, _, _, _)
\* The outcome of the last byte of w when w is fed to a decoder in state
\* (buf, idx).
FeedAll(buf, idx, w, connected) ==
    LET r == LoopStep(buf, idx, Head(w), connected)
    IN  IF Len(w) = 1 THEN r ELSE FeedAll(r.buffer, r.bufferIndex, Tail(w), connected)

\* The same window fed to a decoder that has just been started.
Fresh(w, connected) == FeedAll([i \in 0 .. BufferSize - 1 |-> 0], 0, w, connected)

\* C1: a completed window whose byte 0 is 0x3A emits exactly one reading, and
\* its value is byte3 * 256 + byte2, within 0..65535, whatever bytes 1 and 4 are.
C1_FrameValue ==
    (WindowDone /\ hist[1] = 58)
        => /\ Len(emitted) = 1
           /\ emitted[1].value = hist[4] * 256 + hist[3]
           /\ emitted[1].value \in 0 .. 65535

C1_Witness ==
    /\ WindowDone
    /\ hist = <<58, 66, 255, 65, 0>>
    /\ Len(emitted) = 1
    /\ emitted[1].value = 16895

\* C2: the label of an emitted reading is Qwave, Factory, Warehouse or Lab for
\* the codes 'A'..'D' and Unknown for every other byte; the reading of a frame
\* with an unknown code is emitted like any other and POSTed when WiFi is up.
C2_NodeNameTotal ==
    /\ \A c \in 0 .. 255 :
          getNodeName(c) \in {"Qwave", "Factory", "Warehouse", "Lab", "Unknown"}
    /\ (WindowDone /\ hist[1] = 58)
          => /\ Len(emitted) = 1
             /\ emitted[1].nodeName =
                   (IF hist[2] = 65 THEN "Qwave"
                    ELSE IF hist[2] = 66 THEN "Factory"
                    ELSE IF hist[2] = 67 THEN "Warehouse"
                    ELSE IF hist[2] = 68 THEN "Lab"
                    ELSE "Unknown")
             /\ posts \in {<<>>, emitted}

C2_Witness ==
    /\ WindowDone
    /\ hist[1] = 58
    /\ hist[2] = 255
    /\ Len(posts) = 1
    /\ posts[1].nodeName = "Unknown"

\* C3: a completed window whose byte 0 is not 0x3A emits nothing, POSTs
\* nothing and leaves the buffer index at 0; and whatever was buffered or
\* discarded before, the outcome of a completed window is the outcome of the
\* same 5 bytes fed to a decoder that has just been started.
C3_BadStartDiscarded ==
    WindowDone
        => /\ bufferIndex = 0
           /\ (hist[1] # 58 => emitted = <<>> /\ posts = <<>>)
           /\ emitted = Fresh(hist, TRUE).emitted
           /\ \E c \in BOOLEAN : posts = Fresh(hist, c).posts

\* A frame accepted right after a discarded window.
C3_Witness ==
    /\ WindowDone
    /\ prevBad
    /\ hist[1] = 58
    /\ Len(emitted) = 1
    /\ bufferIndex = 0


\* The reading of the frame 3A 'A' 00 04 xx.
ReadingA1024 ==
    [userId |-> USER_ID, esp32Serial |-> ESP32_SERIAL_NUMBER, nodeName |-> "Qwave",
     sensorType |-> SENSOR_TYPE, value |-> 1024]

\* C20: a reading that was decoded while the WiFi link was down, and so was
\* not posted, is posted later, once the link is up again.
C20_RetryDelivers ==
    (emitted = <<ReadingA1024>> /\ posts = <<>>) ~> (posts = <<ReadingA1024>>)

(***************************************************************************)
(* Line properties (SpecLine, SpecDevice)                                  *)
(***************************************************************************)

\* The bytes of window w as loop() has them in buffer[0..4].
AsBuffer(w) == [i \in 0 .. FrameLen - 1 |-> w[i + 1]]

\* The windows of the decoder and the frames of the sensor node do not start
\* at the same bytes.
Misaligned == phase # txPos

\* C21 as stated: after one byte has been dropped or inserted, every window
\* completed while the decoder is out of step with the frames is discarded.
C21_Original ==
    (slips = 1 /\ Misaligned /\ WindowDone) => emitted = <<>>

\* C21, amended: windows are evaluated exactly when the number of bytes read
\* is a multiple of 5 and consist of the last 5 bytes read; nothing is
\* emitted at another offset, also when the last 5 bytes read are a frame
\* starting with 0x3A; a completed window is accepted exactly when its own
\* byte 0 is 0x3A, in step with the frames or not, so a window out of step is
\* discarded unless the byte falling on its position 0 is 0x3A, and then a
\* reading made of the bytes of that window is emitted.
C21_NoResync ==
    /\ bufferIndex = phase
    /\ phase # 0 => emitted = <<>>
    /\ WindowDone
          => emitted = (IF hist[1] = StartByte
                        THEN <<Reading(AsBuffer(hist))>>
                        ELSE <<>>)
    /\ (WindowDone /\ Misaligned /\ hist[1] # StartByte) => posts = <<>>

\* Out of step after one inserted byte, the decoder has accepted a window
\* that starts with the inserted 0x3A and holds bytes 0..3 of a frame.
C21_Witness ==
    /\ slips = 1
    /\ Misaligned
    /\ WindowDone
    /\ hist[1] = 58
    /\ hist[2] = 58
    /\ hist[3] = 65
    /\ Len(emitted) = 1
    /\ emitted[1].nodeName = "Unknown"

\* No byte is read in this step.
NoByteStep == phase' = phase /\ hist' = hist

\* C22: a step in which no byte arrives leaves the buffered bytes and the
\* buffer index as they are and emits nothing; the buffer index returns to 0
\* only in the step that reads the 5th byte of a window, however many passes
\* of loop() found no byte before.
C22_NoPartialTimeout ==
    [][/\ NoByteStep
          => /\ buffer' = buffer
             /\ bufferIndex' = bufferIndex
             /\ emitted' = emitted
             /\ posts' = posts
       /\ (bufferIndex # 0 /\ bufferIndex' = 0)
          => /\ ~NoByteStep
             /\ bufferIndex = FrameLen - 1
       /\ (bufferIndex' # 0) => emitted' = <<>>]_vars

\* A window completed, and accepted, after the line had been silent in the
\* middle of it for as long as the model counts.
C22_Witness ==
    /\ WindowDone
    /\ gap = MaxGap
    /\ slips = 0
    /\ hist[1] = 58
    /\ Len(emitted) = 1
    /\ emitted[1] = Reading(AsBuffer(hist))

\* C26: between two bytes the buffer index is in 0..4, below the capacity of
\* the buffer, so the guard bufferIndex < sizeof(buffer) holds at every read;
\* the bytes read since the last completed window are buffer[0..bufferIndex-1],
\* and a completed window is buffer[0..4].
C26_BufferIndex ==
    /\ bufferIndex \in 0 .. FrameLen - 1
    /\ bufferIndex < BufferSize
    /\ bufferIndex = phase
    /\ \A i \in 1 .. bufferIndex :
          buffer[i - 1] = hist[Len(hist) - bufferIndex + i]
    /\ WindowDone => \A i \in 1 .. FrameLen : buffer[i - 1] = hist[i]

\* Four bytes are buffered after a discarded and an accepted window.
C26_Witness ==
    /\ bufferIndex = FrameLen - 1
    /\ Len(hist) = FrameLen
    /\ buffer[0] = 255
    /\ buffer[3] = 58
    /\ buffer[4] = 0
    /\ hist = <<0, 255, 0, 0, 58>>

(***************************************************************************)
(* Ingestion properties (SpecIngest, SpecValidate)                         *)
(***************************************************************************)

\* Request r's INSERT is attempted in this step.
PostQueryStep(r) ==
    /\ reqs[r].kind = "post"
    /\ reqs[r].pc = "query"
    /\ reqs'[r].pc # "query"

\* Request r's connect is attempted in this step.
ConnectStep(r) ==
    /\ reqs[r].pc = "connect"
    /\ reqs'[r] # reqs[r]

\* The step appends exactly one row, built from payload b at the server clock,
\* touches no other row and answers 201.
AppendsOne(b) ==
    /\ resp'.status = 201
    /\ \E row \in sensor_data' :
          /\ row \notin sensor_data
          /\ sensor_data' = sensor_data \cup {row}
          /\ row.user_id = Some(ToInt(b.userId[1]))
          /\ row.esp32_serial = b.esp32Serial
          /\ row.node_name = b.nodeName
          /\ row.sensor_type = b.sensorType
          /\ row.sensor_value = b.value
          /\ row.timestamp = clock

C5_NotIdempotent ==
    [][\A r \in Slots :
          (PostQueryStep(r) /\ resp'.status = 201)
              => /\ Cardinality(sensor_data') = Cardinality(sensor_data) + 1
                 /\ \A x \in sensor_data' \ sensor_data :
                       \A y \in sensor_data : x.id # y.id]_vars

\* Three rows that differ in nothing but their id.
C5_Witness ==
    /\ Cardinality(sensor_data) = 3
    /\ \A x, y \in sensor_data : [x EXCEPT !.id = y.id] = y
    /\ resp.status = 201

MissingField(b) ==
    \/ b.userId = Null
    \/ b.esp32Serial = Null
    \/ b.nodeName = Null
    \/ b.sensorType = Null
    \/ b.value = Null

\* C6: the response to a POST whose payload lacks one of the five fields is a
\* client error (4xx), and no row was inserted for it.
C6_MissingFieldRejected ==
    (resp.kind = "post" /\ MissingField(resp.body[1]))
        => /\ resp.status \in 400 .. 499
           /\ resp.inserted = {}

\* C7: when the connect or the INSERT of an ingestion request fails (the store
\* is down, or it refuses the row), the request is answered 500 with a message,
\* the table is left as it was, the request is finished (nothing is tried
\* again), and the process keeps running and accepts the next request.
C7_StoreFailure ==
    /\ [](\A r \in Slots :
            (alive /\ FreeSlot(r) /\ nextId + InFlightPosts <= MaxId)
                => ENABLED PostArrive(r, FullBody("1"), NoHeader))
    /\ [][\A r \in Slots :
            (/\ reqs[r].kind = "post"
             /\ \/ ConnectStep(r) /\ ~dbUp
                \/ PostQueryStep(r) /\ ~dbUp
                \/ PostQueryStep(r) /\ reqs[r].body[1].userId = Null
                \/ PostQueryStep(r) /\ reqs[r].body[1].userId # Null
                                    /\ ToInt(reqs[r].body[1].userId[1]) \notin users)
                => /\ resp'.status = 500
                   /\ resp'.message # ""
                   /\ resp'.body = reqs[r].body
                   /\ sensor_data' = sensor_data
                   /\ nextId' = nextId
                   /\ reqs'[r] = IdleReq
                   /\ alive']_vars

\* A request answered 500 after its connect had succeeded, the table untouched.
C7_Witness ==
    /\ resp.kind = "post"
    /\ resp.status = 500
    /\ resp.body = Some(FullBody("1"))
    /\ ~dbUp
    /\ Cardinality(sensor_data) = 1
    /\ alive
    /\ \A r \in Slots : reqs[r] = IdleReq

\* C18: every value stored in sensor_data is in 0 .. 65535, whatever requests
\* the ingestion endpoint has received.
C18_ValueRange ==
    \A x \in sensor_data :
       x.sensor_value # Null => x.sensor_value[1] \in 0 .. MaxValue

(***************************************************************************)
(* Query and auth properties (SpecQuery)                                   *)
(***************************************************************************)

\* The header carries a token signed with the server's key.
HasSignedToken(h) == Len(h) >= 2 /\ Jwt(h[2]).signed

\* The header carries a token that is signed and not expired at minute now.
HasValidToken(h, now) == HasSignedToken(h) /\ now < Jwt(h[2]).exp

\* C8 as stated: neither endpoint serves a request that carries no valid
\* token: such a request is answered 401 or 403, inserts nothing and reads nothing.
C8_Original ==
    (resp.kind \in {"post", "get"} /\ ~HasSignedToken(resp.header))
        => /\ resp.status \in {401, 403}
           /\ resp.inserted = {}
           /\ resp.rows = <<>>

\* C8, amended: only the query endpoint is gated. A GET whose header carries
\* no token is answered 401, one whose token is forged or expired 403, in both
\* cases without starting the handler or touching the store; every GET handler
\* that runs, and every GET response with status 200 or 500, belongs to a
\* request whose token was signed and names req.user. The ingestion endpoint
\* makes no token check: a POST is never answered 401 or 403.
C8_QueryGated ==
    /\ [](\A r \in Slots :
            reqs[r].kind = "get"
                => /\ HasSignedToken(reqs[r].header)
                   /\ reqs[r].user = Some(Jwt(reqs[r].header[2]).id))
    /\ []((resp.kind = "get" /\ resp.status \in {200, 500})
              => HasSignedToken(resp.header))
    /\ [](resp.kind = "post" => resp.status \in {201, 500})
    /\ [][/\ \A r \in Slots :
               (reqs[r].kind = "idle" /\ reqs'[r].kind = "get")
                   => HasValidToken(reqs'[r].header, clock)
          /\ (resp'.kind = "get" /\ resp'.status \notin {200, 500})
                   => /\ ~HasValidToken(resp'.header, clock)
                      /\ resp'.status = (IF Len(resp'.header) < 2 THEN 401 ELSE 403)
                      /\ resp'.rows = <<>>
                      /\ reqs' = reqs
                      /\ sensor_data' = sensor_data]_vars

\* An expired token of account 1 is refused while readings of account 1 are stored.
C8_Witness ==
    /\ resp.kind = "get"
    /\ resp.status = 403
    /\ resp.header = <<"Bearer", "old1">>
    /\ clock >= 720
    /\ \E x \in sensor_data : x.user_id = Some(1)
    /\ \A r \in Slots : reqs[r] = IdleReq

\* Request r's SELECT is attempted in this step.
GetQueryStep(r) ==
    /\ reqs[r].kind = "get"
    /\ reqs[r].pc = "query"
    /\ reqs'[r].pc # "query"

\* C9: the SELECT of a query request answers 200 with exactly the stored rows
\* whose user_id is the id of the verified token, each once, in non-increasing
\* timestamp order; the rows of other owners and the request's query string
\* have no part in it, and the table is left as it was.
C9_OwnerIsolation ==
    [][\A r \in Slots :
          (GetQueryStep(r) /\ dbUp)
              => LET own == {x \in sensor_data :
                               x.user_id = Some(Jwt(reqs[r].header[2]).id)}
                     n   == Len(resp'.rows)
                 IN  /\ resp'.status = 200
                     /\ n = Cardinality(own)
                     /\ {resp'.rows[i] : i \in 1 .. n} = own
                     /\ \A i, j \in 1 .. n :
                           i < j => resp'.rows[i].timestamp >= resp'.rows[j].timestamp
                     /\ sensor_data' = sensor_data]_vars

\* Account 1 asks with ?userId=2 while a reading of account 2 is stored, and
\* gets its own two readings, the newer one first.
C9_Witness ==
    /\ resp.kind = "get"
    /\ resp.status = 200
    /\ resp.header = <<"Bearer", "tok1">>
    /\ resp.query = Some(2)
    /\ Len(resp.rows) = 2
    /\ resp.rows[1].timestamp > resp.rows[2].timestamp
    /\ \E x \in sensor_data : x.user_id = Some(2)

(***************************************************************************)
(* Retention properties (SpecPurge)                                        *)
(***************************************************************************)

\* The DELETE of the purge run is executed, successfully, in this step.
PurgeDeleteStep == purge.pc = "query" /\ purge'.pc = "end" /\ purge'.ok

\* C10: right after the DELETE of a successful purge run at minute clock, no
\* stored reading is older than clock - 24h, every reading that was stored
\* with timestamp >= clock - 24h is still stored unchanged, and nothing was added.
C10_PurgePostcondition ==
    [][PurgeDeleteStep
          => /\ \A x \in sensor_data' : x.timestamp >= clock - 1440
             /\ \A x \in sensor_data : x.timestamp >= clock - 1440 => x \in sensor_data'
             /\ sensor_data' \subseteq sensor_data]_vars

\* A run has just deleted a reading 36 hours old and kept one 24 hours old
\* and one 12 hours old.
C10_Witness ==
    /\ purge.pc = "end"
    /\ purge.ok
    /\ purge.at = clock
    /\ purge.affected = 1
    /\ \E x, y \in sensor_data :
          /\ x.timestamp = clock - 1440
          /\ y.timestamp = clock - 720

(***************************************************************************)
(* Reading lifecycle and scheduled jobs (SpecAccounts, SpecPurge)          *)
(***************************************************************************)

\* A run of a scheduled job holds a connection from its connect to its db.end().
HoldsConnection(run) == IF run.pc \in {"query", "end"} THEN 1 ELSE 0

\* Connections to the store that are open: those of the requests being
\* handled, those of the runs of the jobs, and those no handler ever ended.
OpenConnections ==
    leaked + Cardinality({r \in Slots : reqs[r].pc = "query"})
           + HoldsConnection(purge) + HoldsConnection(purgeOld) + HoldsConnection(ujob)

\* No request is being handled and no run of a job is in progress.
NothingInFlight ==
    /\ \A r \in Slots : reqs[r].kind = "idle"
    /\ purge.pc = "idle"
    /\ purgeOld.pc = "idle"
    /\ ujob.pc = "idle"

\* C28: whenever no operation is in flight, no connection to the store is open.
C28_ConnectionLifecycle ==
    NothingInFlight => OpenConnections = 0

\* C24: at most one run of the telemetry purge is in progress at any time.
C24_SingleActiveRun ==
    ~(purge.pc # "idle" /\ purgeOld.pc # "idle")

Age(x) == clock - x.timestamp

\* C27 as stated: with every purge run succeeding, every stored reading is,
\* at every instant, younger than 24h + 24h.
C27_Original ==
    \A x \in sensor_data : Age(x) < 2 * DayMinutes

\* C27, amended: with every purge run succeeding, every stored reading is at
\* most 24h + 24h old at the tick of a run, and younger than that whenever no
\* run is in progress; a reading stored at the very instant of a DELETE is
\* kept by it and is exactly 24h + 24h old when the next run starts, and it
\* stays stored until the DELETE of that run has been executed.
C27_StalenessBound ==
    /\ \A x \in sensor_data : Age(x) <= 2 * DayMinutes
    /\ purge.pc \in {"idle", "end"} => \A x \in sensor_data : Age(x) < 2 * DayMinutes
    /\ (purge.pc \in {"idle", "end"} /\ clock >= DayMinutes)
          => \A x \in sensor_data : x.timestamp >= clock - (clock % DayMinutes) - DayMinutes

\* The run of the third midnight has been started and has not executed its
\* DELETE yet: a reading stored at the first midnight, which the run of the
\* second midnight kept, is exactly two days old.
C27_Witness ==
    /\ clock = ThreeDays
    /\ purge.pc = "query"
    /\ \E x \in sensor_data : x.timestamp = DayMinutes /\ Age(x) = 2 * DayMinutes

\* The minute at which the purge run in progress was started by cron.
RunStart == clock - (clock % DayMinutes)

\* C23: with requests and the purge run interleaved in any way, a step that
\* answers 201 adds exactly the row of the response, under an id no stored row
\* has, and removes none; an INSERT is possible whenever a request waits for
\* it, whatever the other requests and the purge run are doing; and rows leave
\* the table only in the DELETE of the purge run, which takes rows older than
\* the horizon only, all of them stored before the run started.
C23_ConcurrentIngestPurge ==
    /\ [](\A r \in Slots :
            (alive /\ reqs[r].kind = "post" /\ reqs[r].pc = "query")
                => ENABLED PostQuery(r))
    /\ [][/\ \A r \in Slots :
              (PostQueryStep(r) /\ resp'.status = 201)
                  => /\ Cardinality(resp'.inserted) = 1
                     /\ sensor_data' = sensor_data \cup resp'.inserted
                     /\ \A x \in resp'.inserted, y \in sensor_data : x.id # y.id
                     /\ \A q \in Slots \ {r} : reqs'[q] = reqs[q]
                     /\ purge' = purge
          /\ (sensor_data \ sensor_data' # {})
                => /\ PurgeDeleteStep
                   /\ \A x \in sensor_data \ sensor_data' :
                         /\ x.timestamp < clock - DayMinutes
                         /\ x.timestamp < RunStart]_vars

\* A request has just been answered 201 while the purge run waits for its
\* DELETE and another request, of another owner, waits for its INSERT; a row
\* of the day before is stored.
C23_Witness ==
    /\ resp.status = 201
    /\ resp.inserted \subseteq sensor_data
    /\ purge.pc = "query"
    /\ clock = DayMinutes
    /\ \E r \in Slots :
          /\ reqs[r].kind = "post"
          /\ reqs[r].pc = "query"
          /\ reqs[r].body # resp.body
    /\ \E x \in sensor_data : x.timestamp = 0

\* The DELETE of the run of deleteUnverifiedUsers is executed in this step.
UnverifiedDeleteStep == ujob.pc = "query" /\ ujob'.pc = "end" /\ ujob'.ok

\* No stored reading is altered by the step: a row that keeps its id keeps
\* all its columns.
RowsUnaltered ==
    \A x \in sensor_data, y \in sensor_data' : x.id = y.id => x = y

\* C11 as stated: a step removes stored readings only if it is the DELETE of
\* the retention purge and the readings removed are older than the horizon;
\* no step alters a stored reading.
C11_Original ==
    [][/\ RowsUnaltered
       /\ (sensor_data \ sensor_data' # {})
             => /\ PurgeDeleteStep
                /\ \A x \in sensor_data \ sensor_data' :
                      x.timestamp < clock - DayMinutes]_vars

\* C11, amended: stored readings are removed by the DELETE of the retention
\* purge, and then only those older than the horizon, or together with their
\* owner when the stale-unverified-account purge deletes an account that is
\* unverified and was created more than one minute before (ON DELETE
\* CASCADE); no other step removes a reading and none alters one.
C11_ReadingLifecycle ==
    [][/\ RowsUnaltered
       /\ (sensor_data \ sensor_data' # {})
             => \/ /\ PurgeDeleteStep
                   /\ \A x \in sensor_data \ sensor_data' :
                         x.timestamp < clock - DayMinutes
                \/ /\ UnverifiedDeleteStep
                   /\ \A x \in sensor_data \ sensor_data' :
                         \E p \in pending :
                            /\ x.user_id = Some(p.id)
                            /\ p.created_at < clock - UnverifiedMinutes
                            /\ p.id \notin users']_vars

\* A run of deleteUnverifiedUsers has just deleted account 3 and, with it, a
\* reading stored for it less than a day ago.
C11_Witness ==
    /\ ujob.pc = "end"
    /\ ujob.ok
    /\ ujob.affected = 1
    /\ clock < DayMinutes
    /\ nextId = 2
    /\ sensor_data = {}
    /\ 3 \notin users

\* C12: no exception of a purge run leaves the purge function: whatever fails
\* in a run (connect, DELETE, disconnect), nothing reaches the scheduler and
\* the process keeps running.
C12_FailureContained ==
    /\ ~escaped
    /\ alive

(***************************************************************************)
(* Dashboard properties (SpecDash)                                         *)
(***************************************************************************)

\* The dashboard is rendered in this step.
RenderStep == dashVars' # dashVars /\ browserNow' = browserNow

Elems(a) == {a[i] : i \in 1 .. Len(a)}

\* The fetched readings of the node with timestamp >= t - range.
Window(data, node, range, t) ==
    {d \in Elems(data) : d.node_name = node /\ d.timestamp >= t - range}

\* C13: the filteredData of a render holds exactly the fetched readings of the
\* selected node with timestamp >= now - timeRange (boundary included), each
\* once, in non-increasing timestamp order.
C13_WindowedFilter ==
    [][RenderStep
          => LET n == Len(filteredData')
                 w == Window(sensorData', selectedNode', timeRange', browserNow)
             IN  /\ Elems(filteredData') = w
                 /\ n = Cardinality(w)
                 /\ \A i, j \in 1 .. n :
                       i < j => filteredData'[i].timestamp >= filteredData'[j].timestamp]_vars

\* Readings of Qwave at now-2m, now-6m and now-20m, a 5-minute window: only
\* the first is shown.
C13_Witness ==
    /\ browserNow = 1440
    /\ timeRange = 5
    /\ selectedNode = Some("Qwave")
    /\ {d.timestamp : d \in {x \in Elems(sensorData) : x.node_name = Some("Qwave")}}
          = {1438, 1434, 1420}
    /\ Len(filteredData) = 1
    /\ filteredData[1].timestamp = 1438

\* The value the speedometer has to show at time t: that of a newest reading
\* in the window, 0 when the window is empty.
IsLatestOf(v, data, node, range, t) ==
    LET w == Window(data, node, range, t)
    IN  IF w = {} THEN v = JsNumber(0, 1)
        ELSE \E d \in w : /\ v = d.sensor_value
                          /\ \A e \in w : e.timestamp <= d.timestamp

\* C14 as stated: latestValue is at all times the value of the newest reading
\* in the current window, or 0; it never shows a reading that has left the window.
C14_Original ==
    IsLatestOf(latestValue, sensorData, selectedNode, timeRange, browserNow)

\* C14, amended: after every render (one follows every change of sensorData,
\* selectedNode or timeRange), latestValue is the value of the newest reading
\* in the window as of that render, and 0 when that window is empty, whatever
\* it was before. Nothing recomputes it between renders.
C14_LatestAtRender ==
    [][RenderStep
          => IsLatestOf(latestValue', sensorData', selectedNode', timeRange',
                        browserNow)]_vars

\* The newest of two readings in the window is shown.
C14_Witness ==
    /\ browserNow = 1441
    /\ timeRange = 10
    /\ selectedNode = Some("Qwave")
    /\ Len(filteredData) = 2
    /\ filteredData[1].timestamp = 1438
    /\ filteredData[2].timestamp = 1434
    /\ latestValue = Decimal(10)

\* The values (as numbers) of the fetched readings of the node on the day.
RECURSIVE SumOf(_)
SumOf(items) ==
    IF items = <<>> THEN 0
    ELSE SumOf(Tail(items)) + ToNumber(items[1].sensor_value).num

DaysPresent(data, node) ==
    {DayOf(d.timestamp) : d \in {x \in Elems(data) : x.node_name = node}}

\* C15: dailyAverageData has one point per calendar day on which the selected
\* node has a reading, none for other days, and the average of each point is
\* the sum of that day's values of the node divided by their number.
C15_DailyAverage ==
    /\ {p.date : p \in Elems(dailyAverageData)} = DaysPresent(sensorData, selectedNode)
    /\ Len(dailyAverageData) = Cardinality(DaysPresent(sensorData, selectedNode))
    /\ \A p \in Elems(dailyAverageData) :
          LET items == OfDay(ForNode(sensorData, selectedNode), p.date)
          IN  /\ p.average.t = "number"
              /\ p.average.num * Len(items) = SumOf(items) * p.average.den

ValuesOf(items) == {ToNumber(items[i].sensor_value).num : i \in 1 .. Len(items)}

\* The orders of the elements of a list.
Orders(a) ==
    {[i \in 1 .. Len(a) |-> a[f[i]]] :
        f \in {g \in [1 .. Len(a) -> 1 .. Len(a)] :
                  \A i, j \in 1 .. Len(a) : i # j => g[i] # g[j]}}

\* C16: dailyMinMaxData has one point per calendar day on which the selected
\* node has a reading; its min is the smallest and its max the largest of that
\* day's values of the node (so both were observed that day, and are the
\* reading's value when there is one reading); the points are the same for
\* every order of the fetched readings.
C16_DailyMinMax ==
    /\ {p.date : p \in Elems(dailyMinMaxData)} = DaysPresent(sensorData, selectedNode)
    /\ Len(dailyMinMaxData) = Cardinality(DaysPresent(sensorData, selectedNode))
    /\ \A p \in Elems(dailyMinMaxData) :
          LET items == OfDay(ForNode(sensorData, selectedNode), p.date)
          IN  /\ ToNumber(p.min).t = "number"
              /\ ToNumber(p.max).t = "number"
              /\ ToNumber(p.min).num \in ValuesOf(items)
              /\ ToNumber(p.max).num \in ValuesOf(items)
              /\ \A v \in ValuesOf(items) :
                    ToNumber(p.min).num <= v /\ v <= ToNumber(p.max).num
              /\ Len(items) = 1 => p.min = items[1].sensor_value /\ p.max = p.min
    /\ \A q \in Orders(sensorData) :
          Elems(calculateDailyMinMax(q, selectedNode)) = Elems(dailyMinMaxData)

\* Readings 10 and 20 on one day and 30 on the next: min 10 max 20, and
\* min = max = 30.
C16_Witness ==
    /\ Len(dailyMinMaxData) = 2
    /\ \E p \in Elems(dailyMinMaxData) :
          p.date = 0 /\ ToNumber(p.min).num = 10 /\ ToNumber(p.max).num = 20
    /\ \E p \in Elems(dailyMinMaxData) :
          p.date = 1 /\ p.min = Decimal(30) /\ p.max = Decimal(30)
    /\ Len(sensorData) = 4

\* C30: dailyAverageData and dailyMinMaxData have the same days in the same
\* order, and on each day min <= average <= max as numbers, so that the three
\* are equal when all readings of the day have the same value.
C30_AggregatesConsistent ==
    /\ Len(dailyAverageData) = Len(dailyMinMaxData)
    /\ \A i \in 1 .. Len(dailyAverageData) :
          LET a == dailyAverageData[i]
              m == dailyMinMaxData[i]
          IN  /\ a.date = m.date
              /\ ToNumber(a.average).t = "number"
              /\ ToNumber(m.min).num * ToNumber(a.average).den <= ToNumber(a.average).num
              /\ ToNumber(a.average).num <= ToNumber(m.max).num * ToNumber(a.average).den
              /\ ToNumber(m.min).num = ToNumber(m.max).num
                    => ToNumber(a.average).num
                          = ToNumber(m.min).num * ToNumber(a.average).den

\* C17: with no fetched reading, or none of the selected node, filteredData,
\* dailyAverageData and dailyMinMaxData are empty and latestValue is 0; no
\* average is ever a division by zero.
C17_EmptyInput ==
    /\ (\A d \in Elems(sensorData) : d.node_name # selectedNode)
          => /\ filteredData = <<>>
             /\ dailyAverageData = <<>>
             /\ dailyMinMaxData = <<>>
             /\ latestValue = JsNumber(0, 1)
    /\ \A p \in Elems(dailyAverageData) : p.average.den >= 1

\* Readings were fetched, none of them of the selected node.
C17_Witness ==
    /\ sensorData # <<>>
    /\ selectedNode = Some("Factory")
    /\ \A d \in Elems(sensorData) : d.node_name # selectedNode
    /\ filteredData = <<>>
    /\ dailyAverageData = <<>>
    /\ latestValue = JsNumber(0, 1)

(***************************************************************************)
(* Polling (SpecPoll)                                                      *)
(***************************************************************************)

\* C29: at most one polling timer is active, and the readings displayed are
\* those of the most recently issued call of fetchSensorData that has got its
\* response: a response to an older call never replaces them.
C29_PollingFreshness ==
    /\ timers <= 1
    /\ shown = newest

(***************************************************************************)
(* End to end (SpecEndToEnd)                                               *)
(***************************************************************************)

\* The frame 3A 'A' 00 04 xx was the device's first reading and was posted,
\* its row is the only one stored, and the dashboard of the owner has fetched it.
FrameStoredAndFetched ==
    /\ hist = <<58, 65, 0, 4, 0>>
    /\ emitted = <<ReadingA1024>>
    /\ posts = <<ReadingA1024>>
    /\ nextId = 2
    /\ Cardinality(sensor_data) = 1
    /\ sensorData # <<>>

\* C19: from an empty store, once the frame 3A 'A' 00 04 xx has been decoded
\* and posted and the owner's dashboard has fetched, the stored row is the
\* owner's, with value 1024 and node "Qwave", the node selected is "Qwave" and
\* the records shown for it within the window (of one minute or more) are that
\* one record, with value 1024.
C19_EndToEnd ==
    FrameStoredAndFetched
        => /\ \A x \in sensor_data :
                 /\ x.user_id = Some(ToInt(USER_ID))
                 /\ x.sensor_value = Some(1024)
                 /\ x.node_name = Some("Qwave")
           /\ selectedNode = Some("Qwave")
           /\ Len(filteredData) = 1
           /\ filteredData[1].node_name = Some("Qwave")
           /\ ToNumber(filteredData[1].sensor_value) = JsNumber(1024, 1)
           /\ ToNumber(latestValue) = JsNumber(1024, 1)

C19_Witness ==
    /\ FrameStoredAndFetched
    /\ timeRange = 1
    /\ Len(filteredData) = 1
    /\ filteredData[1].node_name = Some("Qwave")
    /\ ToNumber(filteredData[1].sensor_value) = JsNumber(1024, 1)
    /\ \A r \in Slots : reqs[r] = IdleReq

====
